---- MODULE Spec2Model ----
(***************************************************************************)
(* ChatterVC (Chatterbox + RVC) text-to-speech server.                     *)
(*                                                                         *)
(* The model covers the speech request pipeline (audio_speech), the two    *)
(* lazily initialised model gateways (CBHandle, RVCHolder), the voice      *)
(* catalog functions (_scan_voices, _resolve_voice) and the VoiceManager.  *)
(*                                                                         *)
(* Strings are sequences of one-character strings so that strip(),         *)
(* lower(), glob suffix matching and sorted() are computed, not assumed.   *)
(***************************************************************************)
EXTENDS Integers, Sequences, FiniteSets, TLC

(***************************************************************************)
(* Strings                                                                 *)
(***************************************************************************)

\* The characters used by the model, in ascending code point order.
AlphabetSeq ==
    << " ", ".", "3", "4", "A", "B", "C", "H", "R", "V", "W", "X", "_",
       "a", "b", "c", "d", "e", "f", "g", "h", "i", "l", "m", "n", "o",
       "p", "r", "s", "t", "v", "w", "x" >>

\* Position of a character in the code point order.
Code(c) == CHOOSE i \in 1..Len(AlphabetSeq) : AlphabetSeq[i] = c

\* str.lower() on one character.
LowerChar(c) ==
    CASE c = "A" -> "a" [] c = "B" -> "b" [] c = "C" -> "c" [] c = "H" -> "h"
      [] c = "R" -> "r" [] c = "V" -> "v" [] c = "W" -> "w" [] c = "X" -> "x"
      [] OTHER -> c

\* str.lower()
Lower(s) == [i \in 1..Len(s) |-> LowerChar(s[i])]

IsSpace(c) == c = " "

\* str.strip(): drop leading and trailing whitespace.
Strip(s) ==
    LET idx == {i \in 1..Len(s) : ~IsSpace(s[i])}
    IN  IF idx = {} THEN << >>
        ELSE LET lo == CHOOSE i \in idx : (i - 1) \notin idx /\ \A j \in idx : i <= j
                 hi == CHOOSE i \in idx : (i + 1) \notin idx /\ \A j \in idx : j <= i
             IN  SubSeq(s, lo, hi)

\* Python's str < str: lexicographic by code point, a proper prefix first.
StrLess(a, b) ==
    \E k \in 1..(Len(b)) :
        /\ k <= Len(a) + 1
        /\ \A j \in 1..(k - 1) : a[j] = b[j]
        /\ \/ k = Len(a) + 1
           \/ (k <= Len(a) /\ Code(a[k]) < Code(b[k]))

\* name.endswith(suffix): what glob("*" + suffix) matches.
EndsWith(s, suf) ==
    /\ Len(suf) <= Len(s)
    /\ SubSeq(s, Len(s) - Len(suf) + 1, Len(s)) = suf

\* sorted(): the ascending sequence of a finite set of strings.
RECURSIVE SortedSeq(_)
SortedSeq(S) ==
    IF S = {} THEN << >>
    ELSE LET m == CHOOSE x \in S : \A y \in S \ {x} : StrLess(x, y)
         IN  << m >> \o SortedSeq(S \ {m})

(***************************************************************************)
(* String constants of the program                                         *)
(***************************************************************************)

S_random         == << "r", "a", "n", "d", "o", "m" >>
S_Random         == << "R", "a", "n", "d", "o", "m" >>
S_chatterbox     == << "c", "h", "a", "t", "t", "e", "r", "b", "o", "x" >>
S_chatterbox_rvc == S_chatterbox \o << "_", "r", "v", "c" >>
S_wav            == << "w", "a", "v" >>
S_flac           == << "f", "l", "a", "c" >>
S_ogg            == << "o", "g", "g" >>
S_voices_slash   == << "v", "o", "i", "c", "e", "s", "/" >>

\* AUDIO_EXTS, in the order the program tries them.
AUDIO_EXTS ==
    << << ".", "w", "a", "v" >>, << ".", "m", "p", "3" >>,
       << ".", "f", "l", "a", "c" >>, << ".", "o", "g", "g" >>,
       << ".", "m", "4", "a" >>, << ".", "a", "a", "c" >> >>

PTH_SUFFIXES == << << ".", "p", "t", "h" >> >>

INDEX_SUFFIXES ==
    << << ".", "i", "n", "d", "e", "x" >>, << ".", "f", "a", "i", "s", "s" >>,
       << ".", "i", "d", "x" >> >>

(***************************************************************************)
(* Voice catalog: pure functions over a directory tree                     *)
(*                                                                         *)
(* A directory is a set of entries [name, isDir, files]; files is the set  *)
(* of [name, isFile] entries inside a subdirectory.  A path is written     *)
(* relative to VOICES_ROOT: <<folder name, file name>> for a file of a      *)
(* voice folder; None is the empty tuple.                                  *)
(***************************************************************************)

None == << >>

\* Mutant of FirstFileIn: the first match is taken without is_file().
FirstFileIn_AnyEntry(names, files) ==
    IF names = << >> THEN None ELSE Head(names)

\* Entries of a folder matching glob("*" + suffix), sorted, first regular file.
RECURSIVE FirstFileIn(_, _)
FirstFileIn(names, files) ==
    IF names = << >> THEN None
    ELSE IF \E f \in files : f.name = Head(names) /\ f.isFile
         THEN Head(names)
         ELSE FirstFileIn(Tail(names), files)

\* _first_with_suffix(folder, suffixes); also _first_audio_in with AUDIO_EXTS.
RECURSIVE _first_with_suffix(_, _)
_first_with_suffix(files, suffixes) ==
    IF suffixes = << >> THEN None
    ELSE LET matches == {f.name : f \in {g \in files : EndsWith(g.name, Head(suffixes))}}
             hit     == FirstFileIn(SortedSeq(matches), files)
         IN  IF hit # None THEN hit
             ELSE _first_with_suffix(files, Tail(suffixes))

_first_audio_in(files) == _first_with_suffix(files, AUDIO_EXTS)

PathIn(folderName, fileName) ==
    IF fileName = None THEN None ELSE << folderName, fileName >>

\* The VoiceInfo a full scan builds for one subdirectory.
ScanRecord(sub) ==
    [ name      |-> sub.name,
      id        |-> sub.name,
      prompt    |-> PathIn(sub.name, _first_audio_in(sub.files)),
      rvc_pth   |-> PathIn(sub.name, _first_with_suffix(sub.files, PTH_SUFFIXES)),
      rvc_index |-> PathIn(sub.name, _first_with_suffix(sub.files, INDEX_SUFFIXES)) ]

SentinelEntry == [id |-> S_random, name |-> S_Random]

\* dict item assignment idx[k] = v
DictPut(d, k, v) == [x \in (DOMAIN d) \cup {k} |-> IF x = k THEN v ELSE d[x]]

EmptyDict == [x \in {} |-> None]

\* Mutant of ScanLoop: folders without an audio prompt are not skipped.
RECURSIVE ScanLoop_NoSkip(_, _, _)
ScanLoop_NoSkip(names, root, acc) ==
    IF names = << >> THEN acc
    ELSE LET sub == CHOOSE e \in root.entries : e.isDir /\ e.name = Head(names)
             vi  == ScanRecord(sub)
         IN  ScanLoop_NoSkip(Tail(names), root,
                    [ voices_json |-> Append(acc.voices_json,
                                             [id |-> vi.id, name |-> vi.name]),
                      idx |-> DictPut(DictPut(acc.idx, Lower(vi.name), vi),
                                      Lower(vi.id), vi) ])

\* The loop of _scan_voices over the sorted subdirectories.
RECURSIVE ScanLoop(_, _, _)
ScanLoop(names, root, acc) ==
    IF names = << >> THEN acc
    ELSE LET sub == CHOOSE e \in root.entries : e.isDir /\ e.name = Head(names)
             vi  == ScanRecord(sub)
         IN  IF vi.prompt = None
             THEN ScanLoop(Tail(names), root, acc)
             ELSE ScanLoop(Tail(names), root,
                    [ voices_json |-> Append(acc.voices_json,
                                             [id |-> vi.id, name |-> vi.name]),
                      idx |-> DictPut(DictPut(acc.idx, Lower(vi.name), vi),
                                      Lower(vi.id), vi) ])

\* _scan_voices(): the listing and the lookup index of a directory tree.
_scan_voices(root) ==
    LET start == [voices_json |-> << SentinelEntry >>, idx |-> EmptyDict]
    IN  IF ~root.exists THEN start
        ELSE ScanLoop(SortedSeq({e.name : e \in {d \in root.entries : d.isDir}}),
                      root, start)

\* Outcomes of _resolve_voice: a record or an HTTP error status.
Found(vi)    == [ok |-> TRUE, vi |-> vi, status |-> 200]
Failed(code) == [ok |-> FALSE, vi |-> None, status |-> code]

\* The longest file name the file system accepts (NAME_MAX of Linux).
NAME_MAX == 255

\* An exception that is not an HTTPException: the request ends with an
\* internal server error.
Unhandled == Failed(500)

\* Paths.  An absolute path is the sequence of its components below "/";
\* VOICES_ROOT is /voices.  Next to it lies a folder that is not a voice of
\* the server and holds an audio file.
S_voices  == << "v", "o", "i", "c", "e", "s" >>
S_dot     == << "." >>
S_dotdot  == << ".", "." >>
S_outside == << "o" >>
S_o_wav   == << "o" >> \o AUDIO_EXTS[1]

VOICES_ROOT == << S_voices >>

OutsideFiles == {[name |-> S_o_wav, isFile |-> TRUE]}

HasSlash(s) == \E i \in DOMAIN s : s[i] = "/"

\* The parts of a path string between its "/" characters.
RECURSIVE SplitPath(_)
SplitPath(s) ==
    IF ~HasSlash(s) THEN << s >>
    ELSE LET k == CHOOSE i \in DOMAIN s :
                     s[i] = "/" /\ \A j \in 1..(i - 1) : s[j] # "/"
         IN  << SubSeq(s, 1, k - 1) >> \o SplitPath(SubSeq(s, k + 1, Len(s)))

IsAbsolute(s) == Len(s) > 0 /\ s[1] = "/"

\* Path.resolve(): empty and "." parts are dropped, ".." removes the part
\* before it and stays at "/" when there is none (no symbolic links).
RECURSIVE NormalizeParts(_, _)
NormalizeParts(parts, stack) ==
    IF parts = << >> THEN stack
    ELSE LET h == Head(parts)
         IN  IF h = << >> \/ h = S_dot
             THEN NormalizeParts(Tail(parts), stack)
             ELSE IF h = S_dotdot
             THEN NormalizeParts(Tail(parts),
                                 IF stack = << >> THEN stack
                                 ELSE SubSeq(stack, 1, Len(stack) - 1))
             ELSE NormalizeParts(Tail(parts), Append(stack, h))

\* (VOICES_ROOT / voice).resolve(): an absolute voice replaces the root.
ResolvedFolder(voice) ==
    NormalizeParts(SplitPath(voice), IF IsAbsolute(voice) THEN << >> ELSE VOICES_ROOT)

\* Path.name: the last component, "" for "/".
PathName(path) == IF path = << >> THEN << >> ELSE path[Len(path)]

\* A path written relative to VOICES_ROOT: VOICES_ROOT/al/r.wav is <<al, r.wav>>.
RelPath(path) ==
    IF Len(path) >= 1 /\ path[1] = S_voices
    THEN Tail(path)
    ELSE << S_dotdot >> \o path

\* What the file system holds at an absolute path: whether it exists, and the
\* entries glob("*") yields there (none for a regular file).
FsAt(path, root) ==
    LET absent == [exists |-> FALSE, files |-> {}]
        leaf   == [exists |-> TRUE, files |-> {}]
    IN  IF path = << >> THEN leaf
        ELSE IF path[1] = S_outside
        THEN IF Len(path) = 1 THEN [exists |-> TRUE, files |-> OutsideFiles]
             ELSE IF Len(path) = 2 /\ \E f \in OutsideFiles : f.name = path[2] /\ ~f.isFile
                  THEN leaf ELSE absent
        ELSE IF path[1] # S_voices \/ ~root.exists THEN absent
        ELSE IF Len(path) = 1
        THEN [exists |-> TRUE,
              files  |-> {[name |-> e.name, isFile |-> ~e.isDir] : e \in root.entries}]
        ELSE IF ~\E e \in root.entries : e.name = path[2] THEN absent
        ELSE LET e == CHOOSE x \in root.entries : x.name = path[2]
             IN  IF Len(path) = 2
                 THEN [exists |-> TRUE, files |-> IF e.isDir THEN e.files ELSE {}]
                 ELSE IF /\ Len(path) = 3
                         /\ e.isDir
                         /\ \E f \in e.files : f.name = path[3] /\ ~f.isFile
                 THEN leaf
                 ELSE absent

\* folder.exists() raises OSError (ENAMETOOLONG) for a path component longer
\* than NAME_MAX.
PathTooLong(path) == \E i \in DOMAIN path : Len(path[i]) > NAME_MAX

\* The path of a file selected in folder, None when none was selected.
FileIn(folder, fileName) ==
    IF fileName = None THEN None ELSE RelPath(Append(folder, fileName))

\* The raw-folder fallback of _resolve_voice: (VOICES_ROOT / voice).resolve().
ResolveFallback(voice, root) ==
    LET folder == ResolvedFolder(voice)
    IN  IF PathTooLong(folder) THEN Unhandled
        ELSE LET node   == FsAt(folder, root)
                 prompt == _first_audio_in(node.files)
             IN  IF ~node.exists \/ prompt = None THEN Failed(404)
                 ELSE Found([ name      |-> PathName(folder),
                              id        |-> S_voices_slash \o PathName(folder),
                              prompt    |-> FileIn(folder, prompt),
                              rvc_pth   |-> FileIn(folder, _first_with_suffix(node.files, PTH_SUFFIXES)),
                              rvc_index |-> FileIn(folder, _first_with_suffix(node.files, INDEX_SUFFIXES)) ])

\* The set of values random.choice(list(voices_idx.values())) can return.
DictValues(d) == {d[k] : k \in DOMAIN d}

\* Mutant of _resolve_voice: no branch for the "random" sentinel.
_resolve_voice_NoSentinel(voice, voices_idx, root) ==
    LET v == Lower(Strip(voice))
    IN  IF v \in DOMAIN voices_idx THEN {Found(voices_idx[v])}
        ELSE {ResolveFallback(voice, root)}

\* Mutant of _resolve_voice: every selector is answered like "random".
_resolve_voice_AlwaysRandom(voice, voices_idx, root) ==
    IF DictValues(voices_idx) = {} THEN {Failed(404)}
    ELSE {Found(x) : x \in DictValues(voices_idx)}

\* _resolve_voice(voice, voices_idx): the set of possible outcomes (more than
\* one only for "random").
_resolve_voice(voice, voices_idx, root) ==
    LET v == Lower(Strip(voice))
    IN  IF v = S_random
        THEN IF DictValues(voices_idx) = {} THEN {Failed(404)}
             ELSE {Found(x) : x \in DictValues(voices_idx)}
        ELSE IF v \in DOMAIN voices_idx THEN {Found(voices_idx[v])}
        ELSE {ResolveFallback(voice, root)}

(***************************************************************************)
(* Bounds and input sets                                                   *)
(***************************************************************************)

\* Request handler threads of the server's thread pool; each serves one
\* request in a behaviour.
Workers == {"w1", "w2"}

\* Threads that call a gateway's ensure-ready method directly, and the total
\* number of such calls in a behaviour.
NumCallers == 4
MaxCalls   == 4
Callers    == 1..NumCallers

\* DEFAULT_SAMPLE_RATE
DEFAULT_SAMPLE_RATE == 24000

\* Native rates an engine instance may report, and rates of a converted file.
EngineRates == {22050}
RvcRates    == {40000}

S_hi   == << "h", "i" >>
S_xml  == << "x", "m", "l" >>
S_WAV  == << "W", "A", "V" >>
S_al   == << "a", "l" >>
S_Bo   == << "B", "o" >>
S_bo_padded == << " ", "b", "o", " " >>
S_Random_padded == << " " >> \o S_Random \o << " " >>
S_e    == << "e" >>
S_nn   == << "n", "n" >>
S_r_wav   == << "r" >> \o AUDIO_EXTS[1]
S_m_pth   == << "m" >> \o PTH_SUFFIXES[1]
S_m_index == << "m" >> \o INDEX_SUFFIXES[1]
S_tts  == << "t", "t", "s" >>
S_CHATTERBOX_RVC == << "C", "H", "a", "t", "t", "e", "r", "B", "o", "X", "_", "R", "V", "C" >>

File(n) == [name |-> n, isFile |-> TRUE]
Dir(n, files) == [name |-> n, isDir |-> TRUE, files |-> files]

\* Directory trees the voices root may hold.
TreeEmpty == [exists |-> TRUE, entries |-> {}]
TreeVoices ==
    [ exists  |-> TRUE,
      entries |-> { Dir(S_al, {File(S_r_wav)}),
                    Dir(S_Bo, {File(S_r_wav), File(S_m_pth), File(S_m_index)}),
                    Dir(S_e, {}) } ]
FsChoices == {TreeEmpty, TreeVoices}

Req(m, i, v, f, sr) ==
    [model |-> m, input |-> i, voice |-> v, format |-> f, sample_rate |-> sr]

\* The requests the workers may receive.
Requests ==
    {Req(S_chatterbox_rvc, S_hi, v, S_wav, DEFAULT_SAMPLE_RATE) :
        v \in {S_Random_padded, S_al, S_bo_padded, S_nn}}
    \cup {Req(m, S_hi, S_Bo, S_wav, DEFAULT_SAMPLE_RATE) :
        m \in {S_chatterbox, S_CHATTERBOX_RVC, S_tts}}
    \cup {Req(S_chatterbox_rvc, i, S_Bo, S_wav, DEFAULT_SAMPLE_RATE) :
        i \in {<< >>, << " ", " " >>}}
    \cup {Req(S_chatterbox_rvc, S_hi, S_Bo, f, DEFAULT_SAMPLE_RATE) :
        f \in {S_xml, S_WAV}}
    \cup {Req(S_chatterbox_rvc, S_hi, S_Bo, S_wav, sr) : sr \in {40000, 0}}

(***************************************************************************)
(* State                                                                   *)
(***************************************************************************)

VARIABLES
    voicesRoot,   \* the directory tree under VOICES_ROOT
    cacheDir,     \* files in CACHE_DIR: path -> samples written
    CB,           \* CBHandle: lock (set of holders), model, model_sr (the engine's sr), sr
    RVC,          \* RVCHolder: lock, vc
    ctorCalls,    \* constructor executions per gateway, and how many raised
    calls,        \* direct gateway calls made so far
    pc,           \* position of each worker in audio_speech
    fr,           \* locals of audio_speech per worker
    vm,           \* the VoiceManager object
    vpc,          \* position of each thread in a VoiceManager method
    vfr,          \* locals of the VoiceManager method each thread runs
    vops,         \* VoiceManager operations called so far
    cat,          \* direct uses of the catalog functions: last scan and calls
    boot          \* process start: which engine libraries are installed, import phase

vmVars == << vm, vpc, vfr, vops >>

vars == << voicesRoot, cacheDir, CB, RVC, ctorCalls, calls, pc, fr, vmVars, cat, boot >>

\* The process whose modules were all imported: both top-level engine imports
\* went through, so both libraries are installed.
Started == [cb_lib |-> TRUE, rvc_lib |-> TRUE, phase |-> "running"]

NoWave  == [origin |-> "none", rate |-> 0]
NoVoice == [name |-> None, id |-> None, prompt |-> None,
            rvc_pth |-> None, rvc_index |-> None]
NoReq   == Req(None, None, None, None, 0)
NoResp  == [kind |-> "none", status |-> 0, detail |-> "", payload |-> NoWave, fmt |-> None,
            X_Model |-> None, X_Voice |-> None, X_RVC_Applied |-> "",
            X_Chatterbox_SR |-> 0]

\* Locals of one invocation.  entry names the function the thread entered;
\* path is the way its ensure-ready call returned ("fast": first check,
\* "waited": check under the lock, "built": after constructing); seen and
\* raised are what a direct gateway call returned with.  The last
\* group records what audio_speech did (calls made, the stage-one result,
\* the failing step, the arguments of _resample).
IdleFrame ==
    [ entry |-> "", path |-> "", seen |-> 0, raised |-> FALSE, req |-> NoReq, text |-> None, vi |-> NoVoice, wave |-> NoWave,
      tts_sr |-> 0, applied_rvc |-> FALSE, tmp_in |-> None, tmp_out |-> None,
      out_wave |-> NoWave, resp |-> NoResp,
      scanned |-> FALSE, cb_called |-> FALSE, cb_tries |-> 0, cb_failed |-> "",
      rvc_stage |-> FALSE,
      rvc_called |-> FALSE, rvc_failed |-> "", stage1 |-> NoWave,
      stage1_sr |-> 0, resample_in |-> NoWave, resample_sr |-> 0 ]

(***************************************************************************)
(* Catalog functions called directly: inputs and state                     *)
(***************************************************************************)

S_Al     == << "A", "l" >>
S_bo     == << "b", "o" >>
S_d      == << "d" >>
S_a_mp3  == << "a" >> \o AUDIO_EXTS[2]
S_a_wav  == << "a" >> \o AUDIO_EXTS[1]
S_b_wav  == << "b" >> \o AUDIO_EXTS[1]
S_B_wav  == << "B" >> \o AUDIO_EXTS[1]
S_n_pth  == << "n" >> \o PTH_SUFFIXES[1]
S_a_pth  == << "a" >> \o PTH_SUFFIXES[1]
S_e_faiss == << "e" >> \o INDEX_SUFFIXES[2]
S_x_idx  == << "x" >> \o INDEX_SUFFIXES[3]

\* A selector one character longer than a file name may be.
S_long == [i \in 1..(NAME_MAX + 1) |-> "x"]

\* A directory inside a voice folder, and a regular file in the voices root.
SubDir(n)   == [name |-> n, isFile |-> FALSE]
RootFile(n) == [name |-> n, isDir |-> FALSE, files |-> {}]

\* Entries the voices root may hold: folders with and without a reference
\* audio, two folders whose names differ in letter case only, a folder whose
\* only "*.wav" entry is a directory, and a regular file.
CatEntries ==
    { Dir(S_al, {File(S_r_wav)}),
      Dir(S_Bo, {File(S_r_wav), File(S_m_pth), File(S_m_index)}),
      Dir(S_bo, {File(S_a_mp3)}),
      Dir(S_e, {}),
      Dir(S_d, {SubDir(S_a_wav), File(S_m_pth)}),
      RootFile(S_r_wav) }

TreeMissing == [exists |-> FALSE, entries |-> {}]

CatTrees ==
    {[exists |-> TRUE, entries |-> es] : es \in SUBSET CatEntries} \cup {TreeMissing}

\* Directory trees for scans alone: the entries above and a voice folder
\* named like the sentinel.
ScanEntries == CatEntries \cup {Dir(S_random, {File(S_r_wav)})}

ScanTrees ==
    {[exists |-> TRUE, entries |-> es] : es \in SUBSET ScanEntries} \cup {TreeMissing}

\* Selectors passed to _resolve_voice.
CatSelectors ==
    {S_al, S_Al, S_Bo, S_bo_padded, S_e, S_nn, S_Random_padded, S_long}

\* Selectors that are paths: empty, ".", "..", "../o", "/o", "al/", "./Bo",
\* "/voices/al", "d/a.wav", and two plain names.
S_slash == << "/" >>

PathSelectors ==
    { << >>, S_dot, S_dotdot,
      S_dotdot \o S_slash \o S_outside,
      S_slash \o S_outside,
      S_al \o S_slash,
      S_dot \o S_slash \o S_Bo,
      S_slash \o S_voices \o S_slash \o S_al,
      S_d \o S_slash \o S_a_wav,
      S_al, S_nn }

\* Entries a voice folder may hold.
CatFiles ==
    { File(S_a_mp3), File(S_b_wav), File(S_B_wav), SubDir(S_a_wav),
      File(S_m_pth), SubDir(S_a_pth), File(S_x_idx), File(S_e_faiss) }

\* One call: the function, its argument, what it returned or raised.
NoCall == [op |-> "none", arg |-> None, out |-> None]

\* No scan made yet, no call made yet.  tree is the directory tree the last
\* scan read; last and prev are the two latest calls, prev being kept only
\* while neither the index nor the tree has changed since.
CatIdle ==
    [ scanned |-> FALSE, tree |-> TreeMissing, voices_json |-> << >>,
      idx |-> EmptyDict, last |-> NoCall, prev |-> NoCall ]

\* The catalog functions are not called directly in a behaviour of the
\* request pipeline, the gateways or the VoiceManager.
CatUnused == cat = CatIdle

(***************************************************************************)
(* VoiceManager: state                                                     *)
(***************************************************************************)

\* Threads using the VoiceManager: thread 0 imports the module (and runs the
\* constructor), all of them call its methods afterwards.
NumClients == 1
MaxOps     == 3
VMThreads  == 0..NumClients

\* Selectors and names passed to the VoiceManager methods.
VMArgs == {S_Random_padded, S_al}

LookupOps ==
    {"get_voice", "has_voice", "list_voices", "find_voice_by_name",
     "find_voice_by_id", "get_random_voice", "get_voice_count"}

VMOps == LookupOps \cup {"scan_voices", "refresh_voices"}

\* VoiceManager.__init__ before its call of scan_voices.  gen numbers the
\* scan a listing or index was built by; kind tells the VoiceInfo class of
\* the index values ("utils" as returned by _scan_voices, "manager" once
\* converted).
VMObject ==
    [ lock         |-> {},
      scanned      |-> FALSE,
      voices_json  |-> [gen |-> 0, data |-> << >>],
      voices_idx   |-> [gen |-> 0, kind |-> "manager", data |-> EmptyDict],
      scans        |-> 0,
      constructed  |-> "running" ]

\* Locals of a thread in a VoiceManager method: the method called, its
\* argument, whether it is inside a nested scan_voices call, whether that call
\* has returned, what the method observed and how it ended.
VMIdleFrame ==
    [ op |-> "", arg |-> None, nested |-> FALSE, resumed |-> FALSE,
      seen_json |-> 0, seen_idx |-> 0, seen_kind |-> "", result |-> None,
      outcome |-> "" ]

VMInit ==
    /\ boot = Started
    /\ vm = VMObject
    /\ vpc = [t \in VMThreads |-> IF t = 0 THEN "acquire" ELSE "idle"]
    /\ vfr = [t \in VMThreads |->
                IF t = 0 THEN [VMIdleFrame EXCEPT !.op = "__init__"] ELSE VMIdleFrame]
    /\ vops = 0
    /\ voicesRoot \in FsChoices
    /\ cacheDir = EmptyDict
    /\ CB = [lock |-> {}, model |-> 0, model_sr |-> 0, sr |-> 0]
    /\ RVC = [lock |-> {}, vc |-> 0]
    /\ ctorCalls = [cb |-> 0, rvc |-> 0, cb_raised |-> 0, rvc_raised |-> 0]
    /\ calls = 0
    /\ pc = [w \in {} |-> ""]
    /\ fr = [w \in {} |-> IdleFrame]
    /\ CatUnused

\* The VoiceManager is not part of a behaviour of the request pipeline.
VMUnused ==
    /\ vm = VMObject
    /\ vpc = [t \in {} |-> ""]
    /\ vfr = [t \in {} |-> VMIdleFrame]
    /\ vops = 0

Init ==
    /\ boot = Started
    /\ voicesRoot \in FsChoices
    /\ cacheDir = EmptyDict
    /\ CB = [lock |-> {}, model |-> 0, model_sr |-> 0, sr |-> 0]
    /\ RVC = [lock |-> {}, vc |-> 0]
    /\ ctorCalls = [cb |-> 0, rvc |-> 0, cb_raised |-> 0, rvc_raised |-> 0]
    /\ calls = 0
    /\ pc = [w \in Workers |-> "idle"]
    /\ fr = [w \in Workers |-> IdleFrame]
    /\ VMUnused
    /\ CatUnused

(***************************************************************************)
(* audio_speech: validation and voice resolution                           *)
(***************************************************************************)

\* Update the locals of worker w and move it to position next.
Goto(w, next, frame) ==
    /\ pc' = [pc EXCEPT ![w] = next]
    /\ fr' = [fr EXCEPT ![w] = frame]

\* The response of a request that fails with an HTTP error.
ErrorResp(kind, status) == [NoResp EXCEPT !.kind = kind, !.status = status]

\* audio_speech returns or raises: the worker is done with the request.
Finish(w, frame, resp) == Goto(w, "done", [frame EXCEPT !.resp = resp])

\* A worker of the thread pool receives a request.
Receive(w) ==
    /\ pc[w] = "idle"
    /\ \E r \in Requests :
         Goto(w, "validate", [IdleFrame EXCEPT !.entry = "audio_speech", !.req = r])
    /\ UNCHANGED << boot, cat, vmVars, voicesRoot, cacheDir, CB, RVC, ctorCalls, calls >>

\* Mutant of InputText: the input is tested without strip().
InputText_NoStrip(req) == req.input

\* text = req.input.strip()
InputText(req) == Strip(req.input)

\* if not text: raise HTTPException(400)
Validate(w) ==
    /\ pc[w] = "validate"
    /\ LET text == InputText(fr[w].req)
           f    == [fr[w] EXCEPT !.text = text]
       IN  IF text = << >>
           THEN Finish(w, f, ErrorResp("BadRequest", 400))
           ELSE Goto(w, "resolve", f)
    /\ UNCHANGED << boot, cat, vmVars, voicesRoot, cacheDir, CB, RVC, ctorCalls, calls >>

\* _, idx = _scan_voices(); vi = _resolve_voice(req.voice, idx)
\* The directory walk may raise an OSError, which nothing catches.
ResolveVoice(w) ==
    /\ pc[w] = "resolve"
    /\ LET f == [fr[w] EXCEPT !.scanned = TRUE]
       IN  \/ Finish(w, f, ErrorResp("InternalError", 500))
           \/ \E res \in _resolve_voice(f.req.voice, _scan_voices(voicesRoot).idx,
                                        voicesRoot) :
                IF res.ok
                THEN Goto(w, "cb_load", [f EXCEPT !.vi = res.vi])
                ELSE Finish(w, f, ErrorResp(IF res.status = 404 THEN "NotFound"
                                               ELSE "InternalError", res.status))
    /\ UNCHANGED << boot, cat, vmVars, voicesRoot, cacheDir, CB, RVC, ctorCalls, calls >>

(***************************************************************************)
(* Base-synthesis gateway: CBHandle.load and CBHandle.tts                  *)
(***************************************************************************)

\* Mutant of SynthesisFailed: the exception of stage one is swallowed.
SynthesisFailed_Swallowed(w, frame, cause) ==
    Goto(w, "rvc_gate", [frame EXCEPT !.cb_failed = cause])

\* except Exception as e:
\*     raise HTTPException(500, f"Chatterbox synthesis failed: {e}")
SynthesisFailed(w, frame, cause) ==
    Finish(w, [frame EXCEPT !.cb_failed = cause],
           [ErrorResp("SynthesisFailed", 500) EXCEPT !.detail = cause])

\* CBHandle.load returns: to CB.tts, or to a thread that called it directly.
CBLoadReturn(w, frame, model) ==
    IF frame.entry = "CB.load"
    THEN Goto(w, "idle", [frame EXCEPT !.seen = model])
    ELSE Goto(w, "cb_generate", frame)

\* CBHandle.load raises: audio_speech turns it into SynthesisFailed.
CBLoadRaise(w, frame) ==
    IF frame.entry = "CB.load"
    THEN Goto(w, "idle", [frame EXCEPT !.raised = TRUE])
    ELSE SynthesisFailed(w, frame, "load")

\* The check "self.model is not None" of CBHandle.load, outside the lock.
CBLoaded == CB.model # 0

\* Mutant of CBLoadedLocked: load without the second check under the lock.
CBLoadedLocked_NoRecheck == FALSE

\* The second check of CBHandle.load, under the lock.
CBLoadedLocked == CB.model # 0

\* CB.tts calls self.load(): the unsynchronised first check.
CBLoadCheck(w) ==
    /\ pc[w] = "cb_load"
    /\ LET f == [fr[w] EXCEPT !.cb_called = TRUE, !.cb_tries = @ + 1]
       IN  IF CBLoaded
           THEN CBLoadReturn(w, [f EXCEPT !.path = "fast"], CB.model)
           ELSE Goto(w, "cb_lock", f)
    /\ UNCHANGED << boot, cat, vmVars, voicesRoot, cacheDir, CB, RVC, ctorCalls, calls >>

\* with self.lock: if self.model is not None: return
CBLockAcquire(w) ==
    /\ pc[w] = "cb_lock"
    /\ CB.lock = {}
    /\ IF CBLoadedLocked
       THEN /\ CBLoadReturn(w, [fr[w] EXCEPT !.path = "waited"], CB.model)
            /\ UNCHANGED CB
       ELSE /\ Goto(w, "cb_construct", fr[w])
            /\ CB' = [CB EXCEPT !.lock = {w}]
    /\ UNCHANGED << boot, cat, vmVars, voicesRoot, cacheDir, RVC, ctorCalls, calls >>

\* self.model = _CBModel.from_pretrained(device=device_param); an exception
\* leaves self.model unassigned and the with-statement releases the lock.
CBConstruct(w) ==
    /\ pc[w] = "cb_construct"
    /\ \/ \E r \in EngineRates :
            /\ CB' = [CB EXCEPT !.model = ctorCalls.cb + 1, !.model_sr = r]
            /\ ctorCalls' = [ctorCalls EXCEPT !.cb = @ + 1]
            /\ Goto(w, "cb_setsr", fr[w])
       \/ /\ CB' = [CB EXCEPT !.lock = {}]
          /\ ctorCalls' = [ctorCalls EXCEPT !.cb = @ + 1, !.cb_raised = @ + 1]
          /\ CBLoadRaise(w, fr[w])
    /\ UNCHANGED << boot, cat, vmVars, voicesRoot, cacheDir, RVC, calls >>

\* Mutant of CBSetSr: load returns with the lock still held.
CBSetSr_KeepsLock(w) ==
    /\ pc[w] = "cb_setsr"
    /\ CB' = [CB EXCEPT !.sr = CB.model_sr]
    /\ CBLoadReturn(w, [fr[w] EXCEPT !.path = "built"], CB.model)
    /\ UNCHANGED << boot, cat, vmVars, voicesRoot, cacheDir, RVC, ctorCalls, calls >>

\* self.sr = int(getattr(self.model, "sr", 24000)); then the lock is released.
\* int() raises on an engine whose sr attribute is not a number.
CBSetSr(w) ==
    /\ pc[w] = "cb_setsr"
    /\ \/ /\ CB' = [CB EXCEPT !.sr = CB.model_sr, !.lock = {}]
          /\ CBLoadReturn(w, [fr[w] EXCEPT !.path = "built"], CB.model)
       \/ /\ CB' = [CB EXCEPT !.lock = {}]
          /\ CBLoadRaise(w, fr[w])
    /\ UNCHANGED << boot, cat, vmVars, voicesRoot, cacheDir, RVC, ctorCalls, calls >>

\* wav = self.model.generate(...): samples at the engine's native rate.
CBGenerate(w) ==
    /\ pc[w] = "cb_generate"
    /\ \/ Goto(w, "read_sr",
               [fr[w] EXCEPT !.wave = [origin |-> "tts", rate |-> CB.model_sr]])
       \/ SynthesisFailed(w, fr[w], "generate")
    /\ UNCHANGED << boot, cat, vmVars, voicesRoot, cacheDir, CB, RVC, ctorCalls, calls >>

\* tts_sr = CB.sr or DEFAULT_SAMPLE_RATE
ReadSr(w) ==
    /\ pc[w] = "read_sr"
    /\ LET sr == IF CB.sr # 0 THEN CB.sr ELSE DEFAULT_SAMPLE_RATE
       IN  Goto(w, "rvc_gate",
                [fr[w] EXCEPT !.tts_sr = sr, !.stage1 = fr[w].wave, !.stage1_sr = sr])
    /\ UNCHANGED << boot, cat, vmVars, voicesRoot, cacheDir, CB, RVC, ctorCalls, calls >>

(***************************************************************************)
(* audio_speech: the optional RVC pass                                     *)
(***************************************************************************)

\* Mutant of ConversionGate: the engine name is not consulted.
ConversionGate_IgnoresModel(req, vi) == vi.rvc_pth # None

\* Mutant of ConversionGate: the voice's model path is not consulted.
ConversionGate_IgnoresPth(req, vi) == Lower(req.model) = S_chatterbox_rvc

\* if req.model.lower() == "chatterbox_rvc" and vi.rvc_pth is not None
ConversionGate(req, vi) ==
    Lower(req.model) = S_chatterbox_rvc /\ vi.rvc_pth # None

\* except Exception: the stage is abandoned at step `step`.
RvcFallback(w, frame, step) ==
    Goto(w, "resample", [frame EXCEPT !.rvc_failed = step, !.applied_rvc = FALSE])

\* applied_rvc = False, then the test that guards the conversion stage.
RvcGate(w) ==
    /\ pc[w] = "rvc_gate"
    /\ LET f == [fr[w] EXCEPT !.applied_rvc = FALSE]
       IN  IF ConversionGate(f.req, f.vi)
           THEN Goto(w, "tmp_write", [f EXCEPT !.rvc_stage = TRUE])
           ELSE Goto(w, "resample", f)
    /\ UNCHANGED << boot, cat, vmVars, voicesRoot, cacheDir, CB, RVC, ctorCalls, calls >>

\* Mutant of Uuid: every call returns the same name.
Uuid_Constant(w, k) == << "w0", 0 >>

\* uuid.uuid4().hex: a name no other call returns.
Uuid(w, k) == << w, k >>

\* tmp_in, tmp_out are named; sf.write(tmp_in, wave, tts_sr) creates tmp_in.
TmpWrite(w) ==
    /\ pc[w] = "tmp_write"
    /\ LET f == [fr[w] EXCEPT !.tmp_in = << "tts" >> \o Uuid(w, 1),
                              !.tmp_out = << "rvc" >> \o Uuid(w, 2)]
           written == [origin |-> f.wave.origin, rate |-> f.tts_sr]
       IN  \/ /\ cacheDir' = DictPut(cacheDir, f.tmp_in, written)
              /\ Goto(w, "rvc_load", f)
           \/ /\ UNCHANGED cacheDir
              /\ RvcFallback(w, f, "write")
    /\ UNCHANGED << boot, cat, vmVars, voicesRoot, CB, RVC, ctorCalls, calls >>

(***************************************************************************)
(* Timbre-conversion gateway: RVCHolder.ensure_loaded and convert_file     *)
(***************************************************************************)

\* ensure_loaded returns: to convert_file, or to a thread that called it directly.
RvcLoadReturn(w, frame, vc) ==
    IF frame.entry = "RVC.ensure_loaded"
    THEN Goto(w, "idle", [frame EXCEPT !.seen = vc])
    ELSE Goto(w, "rvc_convert", frame)

\* ensure_loaded raises: audio_speech absorbs it in the conversion stage.
RvcLoadRaise(w, frame) ==
    IF frame.entry = "RVC.ensure_loaded"
    THEN Goto(w, "idle", [frame EXCEPT !.raised = TRUE])
    ELSE RvcFallback(w, frame, "load")

\* The check "_RVCConverter is None" of ensure_loaded: the name is bound by
\* the import at the top of the module, never to None.
RvcConverterIsNone == FALSE

\* The check "self.vc is not None" of ensure_loaded, outside the lock.
RVCLoaded == RVC.vc # 0

\* The check "self.vc is None" of ensure_loaded, under the lock.
RVCUnloadedLocked == RVC.vc = 0

\* RVC.convert_file calls self.ensure_loaded(): the unsynchronised check.
RvcLoadCheck(w) ==
    /\ pc[w] = "rvc_load"
    /\ LET f == [fr[w] EXCEPT !.rvc_called = TRUE]
       IN  IF RvcConverterIsNone
           THEN RvcLoadRaise(w, f)
           ELSE IF RVCLoaded
           THEN RvcLoadReturn(w, [f EXCEPT !.path = "fast"], RVC.vc)
           ELSE Goto(w, "rvc_lock", f)
    /\ UNCHANGED << boot, cat, vmVars, voicesRoot, cacheDir, CB, RVC, ctorCalls, calls >>

\* with self.lock: if self.vc is None: ...
RvcLockAcquire(w) ==
    /\ pc[w] = "rvc_lock"
    /\ RVC.lock = {}
    /\ IF RVCUnloadedLocked
       THEN /\ Goto(w, "rvc_construct", fr[w])
            /\ RVC' = [RVC EXCEPT !.lock = {w}]
       ELSE /\ RvcLoadReturn(w, [fr[w] EXCEPT !.path = "waited"], RVC.vc)
            /\ UNCHANGED RVC
    /\ UNCHANGED << boot, cat, vmVars, voicesRoot, cacheDir, CB, ctorCalls, calls >>

\* self.vc = _RVCConverter(); the with-statement releases the lock either way.
RvcConstruct(w) ==
    /\ pc[w] = "rvc_construct"
    /\ \/ /\ RVC' = [RVC EXCEPT !.vc = ctorCalls.rvc + 1, !.lock = {}]
          /\ ctorCalls' = [ctorCalls EXCEPT !.rvc = @ + 1]
          /\ RvcLoadReturn(w, [fr[w] EXCEPT !.path = "built"], ctorCalls.rvc + 1)
       \/ /\ RVC' = [RVC EXCEPT !.lock = {}]
          /\ ctorCalls' = [ctorCalls EXCEPT !.rvc = @ + 1, !.rvc_raised = @ + 1]
          /\ RvcLoadRaise(w, fr[w])
    /\ UNCHANGED << boot, cat, vmVars, voicesRoot, cacheDir, CB, calls >>

\* self.vc.convert_audio(...): writes the converted audio to tmp_out.
RvcConvert(w) ==
    /\ pc[w] = "rvc_convert"
    /\ \/ \E r \in RvcRates :
            /\ cacheDir' = DictPut(cacheDir, fr[w].tmp_out, [origin |-> "rvc", rate |-> r])
            /\ Goto(w, "read_back", fr[w])
       \/ /\ UNCHANGED cacheDir
          /\ RvcFallback(w, fr[w], "convert")
    /\ UNCHANGED << boot, cat, vmVars, voicesRoot, CB, RVC, ctorCalls, calls >>

\* wave, tts_sr = sf.read(tmp_out)
ReadBack(w) ==
    /\ pc[w] = "read_back"
    /\ \/ LET data == cacheDir[fr[w].tmp_out]
          IN  Goto(w, "post_convert",
                   [fr[w] EXCEPT !.wave = data, !.tts_sr = data.rate])
       \/ RvcFallback(w, fr[w], "read")
    /\ UNCHANGED << boot, cat, vmVars, voicesRoot, cacheDir, CB, RVC, ctorCalls, calls >>

\* if wave.ndim > 1: wave = wave.mean(axis=1); wave = wave.astype(np.float32);
\* applied_rvc = True
PostConvert(w) ==
    /\ pc[w] = "post_convert"
    /\ \/ Goto(w, "resample", [fr[w] EXCEPT !.applied_rvc = TRUE])
       \/ RvcFallback(w, fr[w], "post")
    /\ UNCHANGED << boot, cat, vmVars, voicesRoot, cacheDir, CB, RVC, ctorCalls, calls >>

(***************************************************************************)
(* audio_speech: resample, encode, respond                                 *)
(***************************************************************************)

\* librosa.resample: the samples' rate is scaled by sr_out / sr_in.
_resample(wave, sr_in, sr_out) ==
    IF sr_in = sr_out THEN wave
    ELSE [origin |-> wave.origin, rate |-> (wave.rate * sr_out) \div sr_in]

\* librosa.resample rejects a non-positive target rate.
ResampleRaises(sr_in, sr_out) == sr_in # sr_out /\ sr_out <= 0

\* out_wave = _resample(wave, sr_in=tts_sr, sr_out=req.sample_rate)
Resample(w) ==
    /\ pc[w] = "resample"
    /\ LET f == [fr[w] EXCEPT !.resample_in = fr[w].wave, !.resample_sr = fr[w].tts_sr]
       IN  IF ResampleRaises(f.tts_sr, f.req.sample_rate)
           THEN Finish(w, f, ErrorResp("InternalError", 500))
           ELSE Goto(w, "encode",
                     [f EXCEPT !.out_wave = _resample(f.wave, f.tts_sr, f.req.sample_rate)])
    /\ UNCHANGED << boot, cat, vmVars, voicesRoot, cacheDir, CB, RVC, ctorCalls, calls >>

\* The formats _encode_audio accepts, after fmt.lower().
SupportedFormat(fmt) == Lower(fmt) \in {S_wav, S_flac, S_ogg}

\* payload, mime = _encode_audio(...); any exception becomes HTTP 400;
\* otherwise the response with its headers.
Encode(w) ==
    /\ pc[w] = "encode"
    /\ LET f == fr[w]
       IN  IF ~SupportedFormat(f.req.format)
           THEN Finish(w, f, ErrorResp("BadRequest", 400))
           ELSE \/ Finish(w, f, ErrorResp("BadRequest", 400))
                \/ Finish(w, f,
                     [ kind |-> "OK", status |-> 200, detail |-> "",
                       payload |-> f.out_wave,
                       fmt |-> Lower(f.req.format), X_Model |-> f.req.model,
                       X_Voice |-> f.vi.name,
                       X_RVC_Applied |-> IF f.applied_rvc THEN "1" ELSE "0",
                       X_Chatterbox_SR |-> f.tts_sr ])
    /\ UNCHANGED << boot, cat, vmVars, voicesRoot, cacheDir, CB, RVC, ctorCalls, calls >>

(***************************************************************************)
(* Direct calls of the gateways' ensure-ready methods                      *)
(***************************************************************************)

\* A thread calls CB.load().
CallLoad(c) ==
    /\ pc[c] = "idle"
    /\ calls < MaxCalls
    /\ calls' = calls + 1
    /\ Goto(c, "cb_load", [IdleFrame EXCEPT !.entry = "CB.load"])
    /\ UNCHANGED << boot, cat, vmVars, voicesRoot, cacheDir, CB, RVC, ctorCalls >>

\* A thread calls RVC.ensure_loaded().
CallEnsureLoaded(c) ==
    /\ pc[c] = "idle"
    /\ calls < MaxCalls
    /\ calls' = calls + 1
    /\ Goto(c, "rvc_load", [IdleFrame EXCEPT !.entry = "RVC.ensure_loaded"])
    /\ UNCHANGED << boot, cat, vmVars, voicesRoot, cacheDir, CB, RVC, ctorCalls >>

(***************************************************************************)
(* Specifications                                                          *)
(***************************************************************************)

\* Steps of CBHandle.load.
CBStep(w) ==
    \/ CBLoadCheck(w)
    \/ CBLockAcquire(w)
    \/ CBConstruct(w)
    \/ CBSetSr(w)

\* Steps of RVCHolder.ensure_loaded.
RvcStep(w) ==
    \/ RvcLoadCheck(w)
    \/ RvcLockAcquire(w)
    \/ RvcConstruct(w)

\* The request pipeline: every worker serves a request.
Next ==
    \E w \in Workers :
        \/ Receive(w)
        \/ Validate(w)
        \/ ResolveVoice(w)
        \/ CBStep(w)
        \/ CBGenerate(w)
        \/ ReadSr(w)
        \/ RvcGate(w)
        \/ TmpWrite(w)
        \/ RvcStep(w)
        \/ RvcConvert(w)
        \/ ReadBack(w)
        \/ PostConvert(w)
        \/ Resample(w)
        \/ Encode(w)

Spec == Init /\ [][Next]_vars

\* The gateways alone: threads call the ensure-ready methods concurrently.
GatewayInit ==
    /\ boot = Started
    /\ voicesRoot = TreeEmpty
    /\ cacheDir = EmptyDict
    /\ CB = [lock |-> {}, model |-> 0, model_sr |-> 0, sr |-> 0]
    /\ RVC = [lock |-> {}, vc |-> 0]
    /\ ctorCalls = [cb |-> 0, rvc |-> 0, cb_raised |-> 0, rvc_raised |-> 0]
    /\ calls = 0
    /\ pc = [c \in Callers |-> "idle"]
    /\ fr = [c \in Callers |-> IdleFrame]
    /\ VMUnused
    /\ CatUnused

GatewayNext ==
    \E c \in Callers :
        \/ CallLoad(c)
        \/ CallEnsureLoaded(c)
        \/ CBStep(c)
        \/ RvcStep(c)

GatewaySpec == GatewayInit /\ [][GatewayNext]_vars

\* Process start: the engine libraries are installed or not, and no module
\* is imported yet.
StartInit ==
    /\ boot \in {[cb_lib |-> c, rvc_lib |-> r, phase |-> "import_chatterbox"] :
                  c, r \in BOOLEAN}
    /\ voicesRoot = TreeEmpty
    /\ cacheDir = EmptyDict
    /\ CB = [lock |-> {}, model |-> 0, model_sr |-> 0, sr |-> 0]
    /\ RVC = [lock |-> {}, vc |-> 0]
    /\ ctorCalls = [cb |-> 0, rvc |-> 0, cb_raised |-> 0, rvc_raised |-> 0]
    /\ calls = 0
    /\ pc = [c \in Callers |-> "idle"]
    /\ fr = [c \in Callers |-> IdleFrame]
    /\ VMUnused
    /\ CatUnused

\* Import of models/chatterbox.py: the engine import sits in a try block whose
\* handler raises RuntimeError; otherwise CB = CBHandle() is created.
ImportChatterbox ==
    /\ boot.phase = "import_chatterbox"
    /\ boot' = [boot EXCEPT !.phase = IF boot.cb_lib THEN "import_rvc" ELSE "failed"]
    /\ UNCHANGED << cat, vmVars, voicesRoot, cacheDir, CB, RVC, ctorCalls, calls, pc, fr >>

\* Import of models/rvc.py: "from rvc.infer.infer import VoiceConverter" at the
\* top of the module raises ImportError; otherwise RVC = RVCHolder() is created.
ImportRvc ==
    /\ boot.phase = "import_rvc"
    /\ boot' = [boot EXCEPT !.phase = IF boot.rvc_lib THEN "running" ELSE "failed"]
    /\ UNCHANGED << cat, vmVars, voicesRoot, cacheDir, CB, RVC, ctorCalls, calls, pc, fr >>

\* The started process: threads call the ensure-ready methods.
Serving == boot.phase = "running" /\ GatewayNext

StartNext ==
    \/ ImportChatterbox
    \/ ImportRvc
    \/ Serving

StartSpec == StartInit /\ [][StartNext]_vars

(***************************************************************************)
(* VoiceManager: methods                                                   *)
(***************************************************************************)

\* The methods that take a voice selector, name or id.
VMOpsWithArg == {"get_voice", "has_voice", "find_voice_by_name", "find_voice_by_id"}

\* Mutant of the lock: acquire never waits.
VMLockFree_NoLock == TRUE

\* threading.Lock.acquire returns only while no thread holds the lock, the
\* calling thread included.
VMLockFree == vm.lock = {}

\* with self._lock: leaving the block releases the lock.
VMRelease(t) == vm.lock \ {t}

VMGoto(t, next, frame) ==
    /\ vpc' = [vpc EXCEPT ![t] = next]
    /\ vfr' = [vfr EXCEPT ![t] = frame]

\* What a method reads of the listing and the index when it returns.
VMObserve(frame) ==
    [frame EXCEPT !.seen_json = vm.voices_json.gen,
                  !.seen_idx  = vm.voices_idx.gen,
                  !.seen_kind = vm.voices_idx.kind]

VMReturned(frame, value) ==
    [VMObserve(frame) EXCEPT !.result = value, !.outcome = "returned"]

VMRaised(frame, code) ==
    [VMObserve(frame) EXCEPT !.result = code, !.outcome = "raised"]

\* A thread calls a method of the module-level voice_manager, which exists
\* once VoiceManager() has returned.
VMCall(t) ==
    /\ vpc[t] = "idle"
    /\ vm.constructed = "done"
    /\ vops < MaxOps
    /\ \E op \in VMOps :
       \E a \in (IF op \in VMOpsWithArg THEN VMArgs ELSE {None}) :
            VMGoto(t, "acquire", [VMIdleFrame EXCEPT !.op = op, !.arg = a])
    /\ vops' = vops + 1
    /\ UNCHANGED << boot, cat, vm, voicesRoot, cacheDir, CB, RVC, ctorCalls, calls, pc, fr >>

\* with self._lock: of every method, and of scan_voices when a method calls
\* it.
VMAcquire(t) ==
    /\ vpc[t] = "acquire"
    /\ VMLockFree
    /\ vm' = [vm EXCEPT !.lock = vm.lock \cup {t}]
    /\ VMGoto(t,
              IF vfr[t].nested \/ vfr[t].op \in {"__init__", "scan_voices"}
              THEN "scan_check" ELSE "body",
              vfr[t])
    /\ UNCHANGED << boot, cat, vops, voicesRoot, cacheDir, CB, RVC, ctorCalls, calls, pc, fr >>

\* The first statements of refresh_voices and of the lookups, inside the
\* lock: both call self.scan_voices() with the lock held.
VMBody(t) ==
    /\ vpc[t] = "body"
    /\ IF vfr[t].op = "refresh_voices"
       THEN /\ vm' = [vm EXCEPT !.scanned = FALSE]
            /\ VMGoto(t, "acquire", [vfr[t] EXCEPT !.nested = TRUE])
       ELSE /\ vm' = vm
            /\ IF ~vm.scanned
               THEN VMGoto(t, "acquire", [vfr[t] EXCEPT !.nested = TRUE])
               ELSE VMGoto(t, "finish", vfr[t])
    /\ UNCHANGED << boot, cat, vops, voicesRoot, cacheDir, CB, RVC, ctorCalls, calls, pc, fr >>

\* scan_voices: if self._scanned: return the cached listing and index.
VMScanCheck(t) ==
    /\ vpc[t] = "scan_check"
    /\ VMGoto(t, IF vm.scanned THEN "scan_return" ELSE "scan_run", vfr[t])
    /\ UNCHANGED << boot, cat, vm, vops, voicesRoot, cacheDir, CB, RVC, ctorCalls, calls, pc, fr >>

\* An exception leaves scan_voices and the method that called it; has_voice
\* turns it into False, VoiceManager() fails with it.
VMScanRaise(t) ==
    /\ vm' = [vm EXCEPT !.lock = VMRelease(t),
                        !.constructed = IF vfr[t].op = "__init__" THEN "failed" ELSE @]
    /\ VMGoto(t, "idle",
              IF vfr[t].op = "has_voice"
              THEN [vfr[t] EXCEPT !.result = FALSE, !.outcome = "returned",
                                  !.nested = FALSE]
              ELSE [vfr[t] EXCEPT !.result = 500, !.outcome = "raised",
                                  !.nested = FALSE])

\* scan_voices: self._voices_json, self._voices_idx = _scan_voices()
VMScanRun(t) ==
    /\ vpc[t] = "scan_run"
    /\ \/ LET s == _scan_voices(voicesRoot)
              g == vm.scans + 1
          IN  /\ vm' = [vm EXCEPT
                          !.voices_json = [gen |-> g, data |-> s.voices_json],
                          !.voices_idx  = [gen |-> g, kind |-> "utils", data |-> s.idx],
                          !.scans = g]
              /\ VMGoto(t, "scan_convert", vfr[t])
       \/ VMScanRaise(t)
    /\ UNCHANGED << boot, cat, vops, voicesRoot, cacheDir, CB, RVC, ctorCalls, calls, pc, fr >>

\* VoiceInfoUtils -> VoiceInfo: the same five fields in the manager's class.
ConvertIdx(idx) == [idx EXCEPT !.kind = "manager"]

\* scan_voices: self._voices_idx = converted_idx; self._scanned = True
VMScanConvert(t) ==
    /\ vpc[t] = "scan_convert"
    /\ vm' = [vm EXCEPT !.voices_idx = ConvertIdx(vm.voices_idx), !.scanned = TRUE]
    /\ VMGoto(t, "scan_return", vfr[t])
    /\ UNCHANGED << boot, cat, vops, voicesRoot, cacheDir, CB, RVC, ctorCalls, calls, pc, fr >>

\* scan_voices returns the listing and the index and releases the lock; the
\* method that called it goes on.
VMScanReturn(t) ==
    /\ vpc[t] = "scan_return"
    /\ vm' = [vm EXCEPT !.lock = VMRelease(t),
                        !.constructed = IF vfr[t].op = "__init__" THEN "done" ELSE @]
    /\ IF vfr[t].nested
       THEN VMGoto(t, "finish", [vfr[t] EXCEPT !.nested = FALSE, !.resumed = TRUE])
       ELSE VMGoto(t, "idle", VMReturned(vfr[t], None))
    /\ UNCHANGED << boot, cat, vops, voicesRoot, cacheDir, CB, RVC, ctorCalls, calls, pc, fr >>

\* The frames a method can end with: what it returns or raises, computed
\* from the listing and the index it reads.
VMResults(frame) ==
    LET idx == vm.voices_idx.data
        op  == frame.op
    IN  IF op = "list_voices" THEN {VMReturned(frame, vm.voices_json.data)}
        ELSE IF op \in {"find_voice_by_name", "find_voice_by_id"}
        THEN {VMReturned(frame, IF Lower(frame.arg) \in DOMAIN idx
                                THEN idx[Lower(frame.arg)] ELSE None)}
        ELSE IF op = "get_voice_count"
        THEN {VMReturned(frame, Cardinality(DOMAIN idx))}
        ELSE IF op = "get_random_voice"
        THEN IF DictValues(idx) = {} THEN {VMRaised(frame, 404)}
             ELSE {VMReturned(frame, x) : x \in DictValues(idx)}
        ELSE IF op = "get_voice"
        THEN {IF r.ok THEN VMReturned(frame, r.vi) ELSE VMRaised(frame, r.status) :
                r \in _resolve_voice(frame.arg, idx, voicesRoot)}
        ELSE IF op = "has_voice"
        THEN {VMReturned(frame, r.ok) :
                r \in _resolve_voice(frame.arg, idx, voicesRoot)}
        ELSE {VMReturned(frame, None)}

\* The rest of a method after the scanned check: the lookup (or, for
\* refresh_voices, the return of what scan_voices returned) and the release of
\* the lock.
VMFinish(t) ==
    /\ vpc[t] = "finish"
    /\ vm' = [vm EXCEPT !.lock = VMRelease(t)]
    /\ \E f \in VMResults(vfr[t]) : VMGoto(t, "idle", f)
    /\ UNCHANGED << boot, cat, vops, voicesRoot, cacheDir, CB, RVC, ctorCalls, calls, pc, fr >>

\* A step inside a VoiceManager method.
VMStep(t) ==
    \/ VMAcquire(t)
    \/ VMBody(t)
    \/ VMScanCheck(t)
    \/ VMScanRun(t)
    \/ VMScanConvert(t)
    \/ VMScanReturn(t)
    \/ VMFinish(t)

VMNext ==
    \E t \in VMThreads :
        \/ VMCall(t)
        \/ VMStep(t)

VMSpec == VMInit /\ [][VMNext]_vars

(***************************************************************************)
(* Catalog functions called directly                                       *)
(***************************************************************************)

CatCall(op, arg, out) == [op |-> op, arg |-> arg, out |-> out]

\* voices_json, idx = _scan_voices(): as in list_voices_endpoint and
\* audio_speech.  The directory walk may raise an OSError.
CatScan ==
    /\ \/ LET s == _scan_voices(voicesRoot)
          IN  cat' = [cat EXCEPT !.scanned = TRUE, !.tree = voicesRoot,
                                 !.voices_json = s.voices_json, !.idx = s.idx,
                                 !.last = CatCall("scan", None, None),
                                 !.prev = NoCall]
       \/ cat' = [cat EXCEPT !.last = CatCall("scan", None, Unhandled),
                             !.prev = NoCall]
    /\ UNCHANGED << boot, vmVars, voicesRoot, cacheDir, CB, RVC, ctorCalls, calls, pc, fr >>

\* A voice folder (or a file) is added under the voices root while the
\* server runs.
CatFsAdd ==
    /\ voicesRoot.exists
    /\ \E e \in CatEntries \ voicesRoot.entries :
         voicesRoot' = [voicesRoot EXCEPT !.entries = @ \cup {e}]
    /\ cat' = [cat EXCEPT !.last = CatCall("fs", None, None), !.prev = NoCall]
    /\ UNCHANGED << boot, vmVars, cacheDir, CB, RVC, ctorCalls, calls, pc, fr >>

\* vi = _resolve_voice(voice, idx) with the index of the last scan.
CatResolve ==
    /\ cat.scanned
    /\ \E sel \in CatSelectors :
       \E res \in _resolve_voice(sel, cat.idx, voicesRoot) :
         cat' = [cat EXCEPT !.last = CatCall("resolve", sel, res),
                            !.prev = IF cat.last.op = "resolve"
                                     THEN cat.last ELSE NoCall]
    /\ UNCHANGED << boot, vmVars, voicesRoot, cacheDir, CB, RVC, ctorCalls, calls, pc, fr >>

\* _first_audio_in(folder) and the two _first_with_suffix(folder, ...) calls
\* on one folder.
CatAssets ==
    /\ \E files \in SUBSET CatFiles :
         cat' = [cat EXCEPT
                   !.last = CatCall("assets", files,
                               [ prompt    |-> _first_audio_in(files),
                                 rvc_pth   |-> _first_with_suffix(files, PTH_SUFFIXES),
                                 rvc_index |-> _first_with_suffix(files, INDEX_SUFFIXES) ]),
                   !.prev = NoCall]
    /\ UNCHANGED << boot, vmVars, voicesRoot, cacheDir, CB, RVC, ctorCalls, calls, pc, fr >>

\* Nothing but the catalog functions takes part.
CatOnly ==
    /\ boot = Started
    /\ cat = CatIdle
    /\ cacheDir = EmptyDict
    /\ CB = [lock |-> {}, model |-> 0, model_sr |-> 0, sr |-> 0]
    /\ RVC = [lock |-> {}, vc |-> 0]
    /\ ctorCalls = [cb |-> 0, rvc |-> 0, cb_raised |-> 0, rvc_raised |-> 0]
    /\ calls = 0
    /\ pc = [w \in {} |-> ""]
    /\ fr = [w \in {} |-> IdleFrame]
    /\ VMUnused

CatInit == voicesRoot \in CatTrees /\ CatOnly

AssetInit == voicesRoot = TreeEmpty /\ CatOnly

\* Scans and resolutions against a directory tree that may grow.
CatNext ==
    \/ CatScan
    \/ CatFsAdd
    \/ CatResolve

CatalogSpec == CatInit /\ [][CatNext]_vars

\* A client resolves an entry of the listing of the last scan, by its id or by
\* its name, against the index of that scan.
CatResolveListed ==
    /\ cat.scanned
    /\ cat.tree = voicesRoot
    /\ \E i \in 2..Len(cat.voices_json) :
       \E sel \in {cat.voices_json[i].id, cat.voices_json[i].name} :
       \E res \in _resolve_voice(sel, cat.idx, voicesRoot) :
         cat' = [cat EXCEPT !.last = CatCall("listed", sel, res), !.prev = NoCall]
    /\ UNCHANGED << boot, vmVars, voicesRoot, cacheDir, CB, RVC, ctorCalls, calls, pc, fr >>

\* A client resolves a selector that may be a path.
CatResolvePath ==
    /\ cat.scanned
    /\ cat.tree = voicesRoot
    /\ \E sel \in PathSelectors :
       \E res \in _resolve_voice(sel, cat.idx, voicesRoot) :
         cat' = [cat EXCEPT !.last = CatCall("resolve", sel, res), !.prev = NoCall]
    /\ UNCHANGED << boot, vmVars, voicesRoot, cacheDir, CB, RVC, ctorCalls, calls, pc, fr >>

ScanInit == voicesRoot \in ScanTrees /\ CatOnly

\* Scans of every directory content, and lookups of what they list.
ScanNext ==
    \/ CatScan
    \/ CatResolveListed

ScanSpec == ScanInit /\ [][ScanNext]_vars

\* Scans of every directory content, and lookups of path selectors.
PathNext ==
    \/ CatScan
    \/ CatResolvePath

PathSpec == ScanInit /\ [][PathNext]_vars

\* Asset selection in one folder, for every folder content.
AssetSpec == AssetInit /\ [][CatAssets]_vars

(***************************************************************************)
(* Properties of the model gateways                                        *)
(***************************************************************************)

\* A thread has returned normally from a direct call of `entry`.
Returned(c, entry) ==
    pc[c] = "idle" /\ fr[c].entry = entry /\ ~fr[c].raised /\ fr[c].path # ""

\* C3: for each gateway, as long as no constructor execution raised, the
\* engine constructor has been executed at most once however the callers of
\* load / ensure_loaded interleave, exactly once as soon as a caller has
\* returned, and every caller that returned saw that one engine instance.
C3_SingleConstruction ==
    /\ ctorCalls.cb_raised = 0 => ctorCalls.cb <= 1
    /\ ctorCalls.rvc_raised = 0 => ctorCalls.rvc <= 1
    /\ \A c \in DOMAIN pc :
        /\ Returned(c, "CB.load") =>
             /\ fr[c].seen # 0 /\ fr[c].seen = CB.model
             /\ ctorCalls.cb - ctorCalls.cb_raised = 1
        /\ Returned(c, "RVC.ensure_loaded") =>
             /\ fr[c].seen # 0 /\ fr[c].seen = RVC.vc
             /\ ctorCalls.rvc - ctorCalls.rvc_raised = 1

\* Witness of C3: on each gateway one caller constructed the engine while
\* another one, which had passed the unsynchronised check before, waited for
\* the lock; both have returned and the constructor ran once.
C3_Witness ==
    /\ ctorCalls = [cb |-> 1, rvc |-> 1, cb_raised |-> 0, rvc_raised |-> 0]
    /\ \E a, b, c, d \in DOMAIN pc :
        /\ Returned(a, "CB.load") /\ fr[a].path = "built"
        /\ Returned(b, "CB.load") /\ fr[b].path = "waited"
        /\ Returned(c, "RVC.ensure_loaded") /\ fr[c].path = "built"
        /\ Returned(d, "RVC.ensure_loaded") /\ fr[d].path = "waited"

\* C4: whenever a call of load / ensure_loaded raises out of the locked
\* initialisation block, the gateway is left uninitialised and its lock is
\* free, so the next call constructs again.
C4_FailureLeavesUninitialized ==
    [][\A c \in DOMAIN pc :
        (~fr[c].raised /\ fr'[c].raised) =>
            /\ fr'[c].entry = "CB.load" => (CB'.model = 0 /\ CB'.lock = {})
            /\ fr'[c].entry = "RVC.ensure_loaded" => (RVC'.vc = 0 /\ RVC'.lock = {})]_vars

(***************************************************************************)
(* Properties of the request pipeline                                      *)
(***************************************************************************)

\* Worker w runs audio_speech and base synthesis has succeeded for it.
StageOneDone(w) ==
    /\ fr[w].entry = "audio_speech"
    /\ fr[w].stage1 # NoWave

\* Worker w is past the conversion stage (entered or skipped).
PastConversion(w) ==
    /\ StageOneDone(w)
    /\ pc[w] \in {"resample", "encode", "done"}

\* C1: whenever a step of the conversion stage has failed, the request goes
\* on to resample and encode (it does not fail with SynthesisFailed or
\* NotFound), what it passes to _resample is the stage-one samples and the
\* stage-one rate, and X-RVC-Applied is "0".
C1_ConversionFailureIsolated ==
    \A w \in DOMAIN pc :
        (StageOneDone(w) /\ fr[w].rvc_failed # "") =>
            /\ pc[w] \in {"resample", "encode", "done"}
            /\ fr[w].resp.kind \in {"none", "OK", "BadRequest", "InternalError"}
            /\ fr[w].wave = fr[w].stage1
            /\ fr[w].tts_sr = fr[w].stage1_sr
            /\ ~fr[w].applied_rvc
            /\ fr[w].resp.kind = "OK" => fr[w].resp.X_RVC_Applied = "0"

\* C2 as claimed: once base synthesis has succeeded and the conversion
\* decision is taken, RVC.convert_file has been (or is being) invoked if and
\* only if the engine name designates conversion and the voice has a .pth.
C2_ConvertInvokedIff ==
    \A w \in DOMAIN pc :
        PastConversion(w) =>
            (fr[w].rvc_called <=>
                (Lower(fr[w].req.model) = S_chatterbox_rvc /\ fr[w].vi.rvc_pth # None))

\* C2 amended: the conversion stage is entered if and only if the engine
\* name (lower-cased) is chatterbox_rvc and the voice has a .pth;
\* RVC.convert_file is invoked only inside that stage, and in that stage it
\* is invoked unless writing the temp input file failed.  With engine
\* chatterbox, or with a voice without .pth, nothing is converted and
\* X-RVC-Applied is "0".
C2_ConversionGated ==
    \A w \in DOMAIN pc :
        LET f == fr[w]
            designated == Lower(f.req.model) = S_chatterbox_rvc
            hasPth     == f.vi.rvc_pth # None
        IN  /\ f.rvc_called => f.rvc_stage
            /\ f.rvc_stage => (designated /\ hasPth)
            /\ PastConversion(w) =>
                /\ f.rvc_stage <=> (designated /\ hasPth)
                /\ f.rvc_called <=> (f.rvc_stage /\ f.rvc_failed # "write")
                /\ (~designated \/ ~hasPth) =>
                     /\ ~f.rvc_called /\ ~f.applied_rvc
                     /\ f.tmp_in = None /\ f.tmp_out = None
                     /\ f.resp.kind = "OK" => f.resp.X_RVC_Applied = "0"

\* Witness of C2: one request with engine chatterbox_rvc and a voice with a
\* .pth was converted, and one with engine chatterbox and the same voice was
\* answered without conversion.
C2_Witness ==
    \E a, b \in DOMAIN pc :
        /\ pc[a] = "done" /\ fr[a].resp.kind = "OK"
        /\ fr[a].rvc_called /\ fr[a].resp.X_RVC_Applied = "1"
        /\ pc[b] = "done" /\ fr[b].resp.kind = "OK"
        /\ fr[b].req.model = S_chatterbox /\ fr[b].vi.rvc_pth # None
        /\ ~fr[b].rvc_called /\ fr[b].resp.X_RVC_Applied = "0"

\* C7: once audio_speech has returned or raised, neither temp file of its
\* conversion stage exists in the cache directory.
C7_TempFilesRemoved ==
    \A w \in DOMAIN pc :
        (pc[w] = "done" /\ fr[w].rvc_stage) =>
            /\ fr[w].tmp_in \notin DOMAIN cacheDir
            /\ fr[w].tmp_out \notin DOMAIN cacheDir

\* C8: a request whose input is empty after trimming never gets past
\* validation: it ends with BadRequest (400), and for it the voice catalog is
\* not scanned and neither gateway is called.
C8_EmptyTextRejectedFirst ==
    \A w \in DOMAIN pc :
        (fr[w].entry = "audio_speech" /\ Strip(fr[w].req.input) = << >>) =>
            /\ pc[w] \in {"validate", "done"}
            /\ pc[w] = "done" =>
                 (fr[w].resp.kind = "BadRequest" /\ fr[w].resp.status = 400)
            /\ ~fr[w].scanned /\ ~fr[w].cb_called /\ ~fr[w].rvc_called
            /\ fr[w].path = ""

\* Witness of C8: a whitespace-only input has been rejected while the other
\* worker's request was synthesised.
C8_Witness ==
    \E a, b \in DOMAIN pc :
        /\ pc[a] = "done" /\ fr[a].req.input = << " ", " " >>
        /\ fr[a].resp.status = 400
        /\ pc[b] = "done" /\ fr[b].resp.kind = "OK"

\* C9: for a request whose format is not wav, flac or ogg, neither base
\* synthesis nor conversion is ever invoked.
C9_BadFormatBeforeSynthesis ==
    \A w \in DOMAIN pc :
        (fr[w].entry = "audio_speech"
            /\ Lower(fr[w].req.format) \notin {S_wav, S_flac, S_ogg}) =>
                (~fr[w].cb_called /\ ~fr[w].rvc_called)

\* C10: for the selector "random" (after strip and lower-case), once the
\* voice is resolved: on an index with records the request does not fail with
\* NotFound and the voice it uses is a record of that index; on an empty
\* index it has failed with NotFound (404) and no gateway was called.
C10_RandomResolves ==
    \A w \in DOMAIN pc :
        LET f       == fr[w]
            records == DictValues(_scan_voices(voicesRoot).idx)
        IN  (f.entry = "audio_speech" /\ Lower(Strip(f.req.voice)) = S_random
                /\ pc[w] \notin {"validate", "resolve"}
                /\ f.resp.kind # "InternalError") =>
            IF records = {}
            THEN /\ pc[w] = "done"
                 /\ f.resp.kind = "NotFound" /\ f.resp.status = 404
                 /\ ~f.cb_called /\ ~f.rvc_called
            ELSE /\ f.resp.kind # "NotFound"
                 /\ f.vi \in records

\* Witness of C10: a "random" request was answered with a voice of the index.
C10_Witness ==
    \E w \in DOMAIN pc :
        /\ pc[w] = "done" /\ fr[w].resp.kind = "OK"
        /\ Lower(Strip(fr[w].req.voice)) = S_random
        /\ fr[w].req.voice # S_random
        /\ \E k \in DOMAIN _scan_voices(voicesRoot).idx :
             _scan_voices(voicesRoot).idx[k].name = fr[w].resp.X_Voice

(***************************************************************************)
(* Properties of the VoiceManager                                          *)
(***************************************************************************)

\* A thread is inside the method op of the VoiceManager.
VMInside(t, op) == vfr[t].op = op /\ vpc[t] # "idle"

\* C5: refresh_voices terminates: while a thread is inside refresh_voices,
\* some thread inside a VoiceManager method can take a step, so the refresh
\* and the operations waiting behind it can still complete and release the
\* lock.
C5_RefreshTerminates ==
    \A t \in VMThreads :
        VMInside(t, "refresh_voices") => \E u \in VMThreads : ENABLED VMStep(u)

\* The threads executing the body of a scan.
VMScanning == {t \in VMThreads : vpc[t] \in {"scan_run", "scan_convert"}}

\* The lookups named by the claim, with has_voice (a get_voice) and
\* get_random_voice.
VMLookupDone(t) ==
    /\ vfr[t].op \in LookupOps
    /\ vpc[t] = "idle"
    /\ vfr[t].outcome # ""

C11_SynthesisFailureFatal ==
    \A w \in DOMAIN pc :
        (fr[w].entry = "audio_speech" /\ fr[w].cb_failed # "") =>
            /\ pc[w] = "done"
            /\ fr[w].resp.kind = "SynthesisFailed"
            /\ fr[w].resp.status = 500
            /\ fr[w].resp.detail = fr[w].cb_failed
            /\ fr[w].cb_tries = 1
            /\ ~fr[w].rvc_stage /\ ~fr[w].rvc_called
            /\ fr[w].tmp_in = None
            /\ fr[w].resample_in = NoWave
            /\ fr[w].out_wave = NoWave
            /\ fr[w].resp.payload = NoWave

\* Witness of C11: one request failed in the gateway's initialization and
\* another in generate.
C11_Witness ==
    \E w, x \in DOMAIN pc :
        /\ fr[w].entry = "audio_speech" /\ fr[w].cb_failed = "load"
        /\ fr[x].entry = "audio_speech" /\ fr[x].cb_failed = "generate"

\* C12: whatever stages fail, a request that has ended either succeeded or
\* failed with BadRequest (400), NotFound (404) or SynthesisFailed (500); no
\* other error kind leaves audio_speech.
C12_OnlyThreeErrorKinds ==
    \A w \in DOMAIN pc :
        (fr[w].entry = "audio_speech" /\ pc[w] = "done") =>
            \/ fr[w].resp.kind = "OK" /\ fr[w].resp.status = 200
            \/ fr[w].resp.kind = "BadRequest" /\ fr[w].resp.status = 400
            \/ fr[w].resp.kind = "NotFound" /\ fr[w].resp.status = 404
            \/ fr[w].resp.kind = "SynthesisFailed" /\ fr[w].resp.status = 500

\* C13: the X-Chatterbox-SR header of a successful response carries the
\* sample rate stage one produced (tts_sr as read after CB.tts, before
\* conversion and resampling), also when the conversion stage ran.
C13_HeaderCarriesStageOneRate ==
    \A w \in DOMAIN pc :
        (fr[w].entry = "audio_speech" /\ pc[w] = "done" /\ fr[w].resp.kind = "OK") =>
            fr[w].resp.X_Chatterbox_SR = fr[w].stage1_sr

\* C14: in a successful response X-RVC-Applied is "1" exactly when the
\* encoded audio derives from the conversion output and "0" exactly when it
\* derives from the stage-one samples.
C14_AppliedFlagMatchesAudio ==
    \A w \in DOMAIN pc :
        (fr[w].entry = "audio_speech" /\ pc[w] = "done" /\ fr[w].resp.kind = "OK") =>
            /\ fr[w].resp.X_RVC_Applied = "1" <=> fr[w].resp.payload.origin = "rvc"
            /\ fr[w].resp.X_RVC_Applied = "0" <=> fr[w].resp.payload.origin = "tts"

\* What C15 promises for worker w: no step of the conversion stage was taken
\* and the request, if answered, carries stage-one audio and X-RVC-Applied "0".
ConversionSkipped(w) ==
    /\ ~fr[w].rvc_stage /\ ~fr[w].rvc_called
    /\ fr[w].tmp_in = None /\ fr[w].tmp_out = None
    /\ ~fr[w].applied_rvc
    /\ fr[w].wave = fr[w].stage1
    /\ pc[w] = "done" =>
          /\ fr[w].resp.kind \in {"OK", "BadRequest", "InternalError"}
          /\ fr[w].resp.kind = "OK" =>
                /\ fr[w].resp.X_RVC_Applied = "0"
                /\ fr[w].resp.payload.origin = "tts"

\* C15 as stated: an engine name that is not exactly "chatterbox_rvc" (a
\* variant in letter case included) skips the conversion stage.
C15_ExactNameOrSkipped ==
    \A w \in DOMAIN pc :
        (PastConversion(w) /\ fr[w].req.model # S_chatterbox_rvc) =>
            ConversionSkipped(w)

\* C15 amended: an engine name that, lower-cased, is not "chatterbox_rvc"
\* skips the conversion stage and the request is not failed for that reason.
C15_OtherNameSkipped ==
    \A w \in DOMAIN pc :
        (PastConversion(w) /\ Lower(fr[w].req.model) # S_chatterbox_rvc) =>
            ConversionSkipped(w)

\* Witness of C15: a request naming an unrecognized engine, for a voice that
\* has a conversion model, was answered with stage-one audio.
C15_Witness ==
    \E w \in DOMAIN pc :
        /\ PastConversion(w) /\ pc[w] = "done" /\ fr[w].resp.kind = "OK"
        /\ Lower(fr[w].req.model) \notin {S_chatterbox, S_chatterbox_rvc}
        /\ fr[w].vi.rvc_pth # None
        /\ fr[w].resp.X_RVC_Applied = "0"

(***************************************************************************)
(* Properties of the catalog functions                                     *)
(***************************************************************************)

\* A subdirectory qualifies as a voice folder: it holds a regular file with a
\* recognized audio extension.
Qualifies(d) ==
    /\ d.isDir
    /\ \E f \in d.files :
         f.isFile /\ \E i \in DOMAIN AUDIO_EXTS : EndsWith(f.name, AUDIO_EXTS[i])

\* C16: after a scan, every qualifying subdirectory of the tree read has
\* exactly one record in the index and one listing entry, every other entry
\* has none, and the index holds as many distinct records as there are
\* qualifying folders.
C16_OneRecordPerVoiceFolder ==
    cat.scanned =>
        LET records == DictValues(cat.idx)
            voiceFolders == {d \in cat.tree.entries : Qualifies(d)}
        IN  /\ \A d \in cat.tree.entries :
                 LET n == Cardinality({r \in records : r.name = d.name})
                     l == Cardinality({i \in 2..Len(cat.voices_json) :
                                          cat.voices_json[i].name = d.name})
                 IN  IF Qualifies(d) THEN n = 1 /\ l = 1 ELSE n = 0 /\ l = 0
            /\ Cardinality(records) = Cardinality(voiceFolders)
            /\ cat.voices_json[1] = SentinelEntry

\* Names of the regular files of a folder that end with ext.
RegularWith(files, ext) ==
    {f.name : f \in {g \in files : g.isFile /\ EndsWith(g.name, ext)}}

\* The asset the selection rule names: the lexicographically first regular
\* file of the first extension in exts that has a regular file; None if no
\* extension has one.
ExpectedAsset(files, exts) ==
    LET having == {i \in DOMAIN exts : RegularWith(files, exts[i]) # {}}
    IN  IF having = {} THEN None
        ELSE LET k == CHOOSE i \in having : \A j \in having : i <= j
                 c == RegularWith(files, exts[k])
             IN  CHOOSE n \in c : \A y \in c \ {n} : StrLess(n, y)

\* C17: the reference audio, the model file and the index file selected in a
\* folder are those the selection rule names, over AUDIO_EXTS, (.pth) and
\* (.index, .faiss, .idx); a directory is never selected.
C17_AssetSelection ==
    cat.last.op = "assets" =>
        LET files == cat.last.arg
            out   == cat.last.out
        IN  /\ out.prompt = ExpectedAsset(files, AUDIO_EXTS)
            /\ out.rvc_pth = ExpectedAsset(files, PTH_SUFFIXES)
            /\ out.rvc_index = ExpectedAsset(files, INDEX_SUFFIXES)
            /\ \A f \in files :
                 ~f.isFile => f.name \notin {out.prompt, out.rvc_pth, out.rvc_index}

\* Witness of C17: a folder with a directory a.wav, regular files B.wav, b.wav
\* and a.mp3, a directory a.pth beside m.pth, and x.idx beside e.faiss; the
\* selection is B.wav, m.pth and e.faiss.
C17_Witness ==
    /\ cat.last.op = "assets"
    /\ cat.last.arg = CatFiles
    /\ cat.last.out.prompt = S_B_wav
    /\ cat.last.out.rvc_pth = S_m_pth
    /\ cat.last.out.rvc_index = S_e_faiss

\* The two latest calls are resolutions against the same index and tree.
TwoResolves == cat.last.op = "resolve" /\ cat.prev.op = "resolve"

\* Normal form of a selector: selector.strip().lower().
Normalized(sel) == Lower(Strip(sel))

\* A voice folder exists whose name, in any letter case, the selector names.
VoiceFolderFor(sel) ==
    \E d \in voicesRoot.entries : Qualifies(d) /\ Lower(d.name) = Normalized(sel)

\* C18: when a voice folder exists, two selectors that differ only in letter
\* case or surrounding whitespace resolve to the same record, whether the
\* folder is in the index or is reached through the raw-folder fallback.
C18_CaseInsensitiveResolve ==
    ( /\ TwoResolves
      /\ Normalized(cat.last.arg) = Normalized(cat.prev.arg)
      /\ Normalized(cat.last.arg) # S_random
      /\ VoiceFolderFor(cat.last.arg) )
    => /\ cat.last.out.ok
       /\ cat.last.out = cat.prev.out

FolderRecord(d) ==
    [ name      |-> d.name,
      id        |-> S_voices_slash \o d.name,
      prompt    |-> PathIn(d.name, ExpectedAsset(d.files, AUDIO_EXTS)),
      rvc_pth   |-> PathIn(d.name, ExpectedAsset(d.files, PTH_SUFFIXES)),
      rvc_index |-> PathIn(d.name, ExpectedAsset(d.files, INDEX_SUFFIXES)) ]

\* C20: a selector that is neither "random" nor an index key resolves to the
\* record of the folder of that name under the voices root when that folder
\* exists and has an audio asset, and fails otherwise; every failure of
\* resolve is a NotFound (404).
C20_FallbackOrNotFound ==
    cat.last.op = "resolve" =>
        LET sel == cat.last.arg
            out == cat.last.out
        IN  /\ ~out.ok => out.status = 404
            /\ (Normalized(sel) # S_random /\ Normalized(sel) \notin DOMAIN cat.idx) =>
                 IF \E d \in voicesRoot.entries : d.name = sel /\ Qualifies(d)
                 THEN /\ out.ok
                      /\ out.vi = FolderRecord(CHOOSE d \in voicesRoot.entries : d.name = sel)
                 ELSE ~out.ok

(***************************************************************************)
(* Properties of the listing and the index of one scan                     *)
(***************************************************************************)

\* C21: for every directory content the listing of a scan starts with the
\* sentinel {id: "random", name: "Random"}, and the index of that scan has no
\* record under the key "random".
C21_SentinelListedNotIndexed ==
    cat.scanned =>
        /\ Len(cat.voices_json) >= 1
        /\ cat.voices_json[1] = SentinelEntry
        /\ S_random \notin DOMAIN cat.idx

(***************************************************************************)
(* Properties of the gateway locks inside the request pipeline             *)
(***************************************************************************)

\* The holder of a gateway lock is inside the initialization of that gateway.
LockHeldOnlyInInit ==
    \A w \in DOMAIN pc :
        /\ w \in CB.lock => pc[w] \in {"cb_construct", "cb_setsr"}
        /\ w \in RVC.lock => pc[w] = "rvc_construct"

\* A call that finds the gateway initialized returns in that step and leaves
\* the gateway, its lock included, as it was.
FastPathLockFree ==
    \A w \in DOMAIN pc :
        /\ (pc[w] = "cb_load" /\ CBLoaded /\ pc'[w] # pc[w]) =>
              /\ CB' = CB
              /\ pc'[w] \in {"cb_generate", "idle"}
        /\ (pc[w] = "rvc_load" /\ RVCLoaded /\ pc'[w] # pc[w]) =>
              /\ RVC' = RVC
              /\ pc'[w] \in {"rvc_convert", "idle"}

\* C22: each gateway's lock is scoped to initialization: a call on an
\* initialized gateway returns without acquiring the lock, and no request
\* holds a gateway lock while it runs generate or convert_audio.
C22_LockScopedToInit ==
    /\ []LockHeldOnlyInInit
    /\ [][FastPathLockFree]_vars

\* Two requests are inside generate at once, one of them through the fast
\* path, and no lock is held.
C22_Witness ==
    \E a, b \in DOMAIN pc :
        /\ a # b
        /\ pc[a] = "cb_generate" /\ pc[b] = "cb_generate"
        /\ fr[b].path = "fast"
        /\ CB.lock = {}

(***************************************************************************)
(* Properties of process start                                             *)
(***************************************************************************)

\* C23: when an engine library is not installed, process start (importing the
\* modules and creating the gateway objects) still succeeds; the failure is
\* raised only when a gateway is first used.
C23_StartSucceedsWithoutEngine ==
    (~boot.cb_lib \/ ~boot.rvc_lib) => boot.phase # "failed"

(***************************************************************************)
(* Properties of the records resolve returns for path selectors            *)
(***************************************************************************)

\* The path lies in the immediate subdirectory d of the voices root.
InsideFolder(path, d) == Len(path) = 2 /\ path[1] = d.name

\* C29: for every selector, a record resolve returns refers to an immediate
\* subdirectory of the voices root, and its reference, model and index paths
\* lie inside that subdirectory; never the root itself, never a folder outside.
C29_ResolvedInsideRoot ==
    (cat.last.op = "resolve" /\ cat.last.out.ok) =>
        LET vi == cat.last.out.vi
        IN  \E d \in voicesRoot.entries :
              /\ d.isDir
              /\ vi.name = d.name
              /\ InsideFolder(vi.prompt, d)
              /\ vi.rvc_pth # None => InsideFolder(vi.rvc_pth, d)
              /\ vi.rvc_index # None => InsideFolder(vi.rvc_index, d)

(***************************************************************************)
(* Properties of the reference asset of a record                           *)
(***************************************************************************)

\* The VoiceInfo(...) copies VoiceManager.scan_voices and get_voice make of a
\* record, field by field.
VoiceInfoCopy(vi) ==
    [ name      |-> vi.name,
      id        |-> vi.id,
      prompt    |-> vi.prompt,
      rvc_pth   |-> vi.rvc_pth,
      rvc_index |-> vi.rvc_index ]

\* The absolute path a path relative to VOICES_ROOT names.
AbsPath(rel) ==
    IF rel[1] = S_dotdot THEN Tail(rel) ELSE VOICES_ROOT \o rel

\* The reference path of vi is set and names a regular file with an audio
\* extension directly inside the folder the record is named after.
HasReferenceAsset(vi, root) ==
    /\ vi.prompt # None
    /\ LET path   == AbsPath(vi.prompt)
           folder == SubSeq(path, 1, Len(path) - 1)
           file   == path[Len(path)]
       IN  /\ PathName(folder) = vi.name
           /\ \E f \in FsAt(folder, root).files : f.name = file /\ f.isFile
           /\ \E i \in DOMAIN AUDIO_EXTS : EndsWith(file, AUDIO_EXTS[i])

\* C24: every record constructed, by a full scan, by the raw-folder fallback
\* or as a VoiceManager copy, has a reference path that names a regular audio
\* file inside the record's folder; so has every record of the index.
C24_RecordsHaveReferenceAsset ==
    /\ \A vi \in DictValues(cat.idx) :
         /\ HasReferenceAsset(vi, cat.tree)
         /\ HasReferenceAsset(VoiceInfoCopy(vi), cat.tree)
    /\ (cat.last.op = "resolve" /\ cat.last.out.ok) =>
         /\ HasReferenceAsset(cat.last.out.vi, voicesRoot)
         /\ HasReferenceAsset(VoiceInfoCopy(cat.last.out.vi), voicesRoot)

\* The index holds records, and resolve returned a record the fallback built.
C24_Witness ==
    /\ cat.idx # EmptyDict
    /\ cat.last.op = "resolve"
    /\ cat.last.out.ok
    /\ cat.last.out.vi \notin DictValues(cat.idx)

(***************************************************************************)
(* Properties of the sample rate along the request pipeline                *)
(***************************************************************************)

\* C25: under every interleaving of concurrent first requests in which no
\* load fails, a request that completes base synthesis takes the engine's
\* native rate, the rate of the samples generate returned, as its stage-one
\* rate; it never falls back to DEFAULT_SAMPLE_RATE because it read CB.sr
\* while the engine was already visible as initialized.
C25_StageOneRateIsNative ==
    (\A x \in DOMAIN pc : fr[x].cb_failed # "load") =>
        \A w \in DOMAIN pc :
            StageOneDone(w) => fr[w].stage1_sr = fr[w].stage1.rate

\* What a request that entered the conversion stage passes to _resample is
\* the stage-one pair, or samples read back from tmp_out with the rate read
\* from the same file.
SamplesAndRatePaired ==
    \A w \in DOMAIN pc :
        (fr[w].rvc_stage /\ fr[w].resample_in # NoWave) =>
            \/ fr[w].resample_in = fr[w].stage1 /\ fr[w].resample_sr = fr[w].stage1_sr
            \/ fr[w].resample_in.origin = "rvc" /\ fr[w].resample_sr = fr[w].resample_in.rate

\* C26: on every path through the conversion stage the samples and the sample
\* rate are replaced together, and the input rate passed to _resample is the
\* rate of the samples passed with it.
C26_ResampleRateIsSamplesRate ==
    /\ SamplesAndRatePaired
    /\ \A w \in DOMAIN pc :
         (fr[w].rvc_stage /\ fr[w].resample_in # NoWave) =>
             fr[w].resample_sr = fr[w].resample_in.rate

(***************************************************************************)
(* Properties of the temp files of the conversion stage                    *)
(***************************************************************************)

\* The temp paths of worker w, once named.
TempPaths(w) ==
    IF fr[w].tmp_in = None THEN {} ELSE {fr[w].tmp_in, fr[w].tmp_out}

\* The four temp paths of two executions of the conversion stage differ.
TempPathsDistinct ==
    \A a \in DOMAIN pc :
        /\ fr[a].tmp_in # None => fr[a].tmp_in # fr[a].tmp_out
        /\ \A b \in DOMAIN pc \ {a} : TempPaths(a) \cap TempPaths(b) = {}

\* A step writes only temp files of the request that takes it, and leaves
\* every file already written as it is.
TempFilesOwnWrites ==
    /\ \A p \in DOMAIN cacheDir : p \in DOMAIN cacheDir' /\ cacheDir'[p] = cacheDir[p]
    /\ \A p \in DOMAIN cacheDir' \ DOMAIN cacheDir :
         \E w \in DOMAIN pc : pc'[w] # pc[w] /\ p \in {fr'[w].tmp_in, fr'[w].tmp_out}

\* C27: for any two executions of the conversion stage the temp input and
\* output paths are all distinct, and no request overwrites, or reads back,
\* a file of another request.
C27_TempFilesIsolated ==
    /\ []TempPathsDistinct
    /\ [][TempFilesOwnWrites]_vars

\* Two requests have both run the converter: four temp files exist.
C27_Witness ==
    \E a, b \in DOMAIN pc :
        /\ a # b
        /\ TempPaths(a) \cup TempPaths(b) \subseteq DOMAIN cacheDir
        /\ TempPaths(a) # {} /\ TempPaths(b) # {}

\* C28: each listing entry other than the sentinel resolves, by its id and by
\* its name, against the index of the same scan to the record of the folder
\* with exactly that name; also when two folders differ only in letter case
\* or a folder is named "random".
C28_ListedResolvesToOwnFolder ==
    cat.last.op = "listed" =>
        /\ cat.last.out.ok
        /\ \E d \in cat.tree.entries :
             /\ d.isDir
             /\ d.name = cat.last.arg
             /\ cat.last.out.vi = ScanRecord(d)

\* C30: for every voice folder that has an audio asset, the record the
\* raw-folder fallback of resolve builds has the same five field values as the
\* record a full scan builds for that folder.
C30_FallbackEqualsScanRecord ==
    ( /\ cat.last.op = "resolve"
      /\ cat.last.out.ok
      /\ Normalized(cat.last.arg) # S_random
      /\ Normalized(cat.last.arg) \notin DOMAIN cat.idx )
    => \A d \in voicesRoot.entries :
         (Qualifies(d) /\ d.name = cat.last.out.vi.name) =>
             cat.last.out.vi = ScanRecord(d)

====
